---------------------------- MODULE Spec2Model ----------------------------
(***************************************************************************)
(* The real-time session coordinator of the chess application: the         *)
(* socket.io event handlers that create, join and relay games, the         *)
(* disconnect handler with its deferred clean-up timer (src/server.js,     *)
(* src/unnamed/part_000) and the periodic sweep of the serverless variant  *)
(* (src/unnamed/part_001).                                                 *)
(*                                                                         *)
(* Node runs every handler and every timer callback to completion on one   *)
(* thread, so each handler is one atomic action.                           *)
(***************************************************************************)
EXTENDS Integers, Sequences, FiniteSets, TLC

\* ------------------------------------------------------------------ bounds

\* Most entries (players and spectators of all games together) the model lets
\* the registry hold; the code has no limit.
MaxMembers == 3

\* Number of runs of the setInterval sweep the model follows.
MaxSweeps == 10

\* ------------------------------------------------------- program constants

\* 30 * 60 * 1000: the period of the stale-game sweep.
SweepIntervalMs == 1800000

\* 4 * 60 * 60 * 1000: the age beyond which the sweep deletes a game.
MaxAgeMs == 14400000

\* ------------------------------------------------------------- input sets

\* The socket connections, by socket.id.  An id is never reused, so a socket
\* that has disconnected never acts again.
Conns == 1..3

\* Values of Math.random().toString(36).substring(2, 8), and of the gameId a
\* client sends.
GameIds == {"g1", "g2"}

\* The playerName (and chat sender) each socket's user types.
NameOf == <<"Ann", "Bob", "Cid">>

\* gameState payloads (FEN strings to the clients, opaque to the server).
States == {"fen1", "fen2"}

\* move payloads.
Moves == {"e4"}

\* chat message and game result payloads.
Texts == {"hi"}

\* JavaScript null, the initial gameState.
Null == "null"

\* How many runs of the sweep pass between two requests that the model
\* tells apart: 2 h or 2.5 h, so that a game is seen at the ages of 0, 2,
\* 2.5, 4 (not yet stale), 4.5 and 5 hours.
SweepRuns == {4, 5}

\* The runs the model follows.  The handlers live in two programs: the
\* custom server of src/server.js (and part_000), whose disconnect handler
\* arms the clean-up timer, and the API route of part_001, which sweeps
\* stale games instead.  A run has the sockets that connect to the program
\* and the tokens that Math.random yields and the clients name.
Scopes ==
    { [deployment |-> "server", sockets |-> {1, 2, 3}, tokens |-> {"g1"}],
      [deployment |-> "server", sockets |-> {1, 2},    tokens |-> {"g1", "g2"}],
      [deployment |-> "api",    sockets |-> {1, 2, 3}, tokens |-> {"g1"}],
      [deployment |-> "api",    sockets |-> {1},       tokens |-> {"g1", "g2"}] }

VARIABLES
    deployment,   \* which program runs: "server" or "api"
    tokens,       \* the tokens Math.random yields and clients name in this run
    games,        \* const games = {}: gameId -> game object
    userGameMap,  \* const userGameMap = {}: socket.id -> gameId
    rooms,        \* socket.io rooms: gameId -> set of sockets that joined it
    connected,    \* sockets whose 'disconnect' has not fired
    timers,       \* pending setTimeout callbacks, in arming order
    now,          \* the time of the last sweep, in ms since the start
    sent,         \* events emitted by the last handler, in order
    last          \* the last handler or callback that ran (and, of a timer,
                  \* the gameId it captured and its history field)

vars == <<deployment, tokens, games, userGameMap, rooms, connected, timers, now, sent, last>>

\* ---------------------------------------------------------------- helpers

\* The object with no keys.
EmptyMap == [k \in {} |-> Null]

\* obj[key] = value on a keyed object.
Put(obj, key, value) ==
    [k \in DOMAIN obj \cup {key} |-> IF k = key THEN value ELSE obj[k]]

\* delete obj[key].
Delete(obj, key) == [k \in DOMAIN obj \ {key} |-> obj[k]]

\* Array.prototype.findIndex by id: the first index whose entry has this id,
\* 0 where JavaScript gives -1.
FindIndex(arr, id) ==
    IF \E i \in 1..Len(arr) : arr[i].id = id
    THEN CHOOSE i \in 1..Len(arr) :
            /\ arr[i].id = id
            /\ \A j \in 1..(i - 1) : arr[j].id # id
    ELSE 0

\* arr.splice(i, 1).
Splice(arr, i) == [j \in 1..(Len(arr) - 1) |-> IF j < i THEN arr[j] ELSE arr[j + 1]]

\* One emit to a set of sockets: one event for each connected recipient,
\* listed by ascending socket.
EmitTo(recipients, event) ==
    LET order == SelectSeq([i \in Conns |-> i],
                           LAMBDA c : c \in recipients /\ c \in connected)
    IN  [i \in 1..Len(order) |-> [to |-> order[i]] @@ event]

\* socket.emit(...): to the socket itself.
EmitSelf(c, event) == EmitTo({c}, event)

\* io.to(gameId).emit(...): to every socket in the room.
EmitRoom(g, event) == EmitTo(rooms[g], event)

\* socket.to(gameId).emit(...): to every socket in the room but the sender.
EmitRoomExcept(g, c, event) == EmitTo(rooms[g] \ {c}, event)

\* socket.join(gameId).
JoinRoom(c, g) == [rooms EXCEPT ![g] = @ \cup {c}]

\* The clean-up condition of the disconnect handler and of its timer.
IsEmptyGame(game) ==
    \/ Len(game.players) = 0
    \/ (Len(game.players) = 1 /\ Len(game.spectators) = 0)

\* Number of entries the registry holds.
Members ==
    LET RECURSIVE Sum(_)
        Sum(S) == IF S = {} THEN 0
                  ELSE LET g == CHOOSE x \in S : TRUE
                       IN  Len(games[g].players) + Len(games[g].spectators)
                           + Sum(S \ {g})
    IN  Sum(DOMAIN games)

\* The pending timers with the history field of those that captured gameId g
\* set to v.  `joined` is not program state: it records whether, since the
\* timer was armed, join_game has admitted somebody to the game that games
\* now holds under g.
MarkTimers(g, v) ==
    [i \in 1..Len(timers) |->
        IF timers[i].gameId = g
        THEN [timers[i] EXCEPT !.joined = v]
        ELSE timers[i]]

\* ------------------------------------------------------------------- Init

Init ==
    /\ \E scope \in Scopes :
          /\ deployment = scope.deployment
          /\ tokens = scope.tokens
          /\ connected = scope.sockets
    /\ games = EmptyMap
    /\ userGameMap = EmptyMap
    /\ rooms = [g \in GameIds |-> {}]
    /\ timers = <<>>
    /\ now = 0
    /\ sent = <<>>
    /\ last = [op |-> "init"]

\* --------------------------------------------------------------- handlers

\* The game object create_game stores; part_001 adds createdAt: new Date()
\* (kept as the time of the last sweep before it, which gives the sweep's
\* comparison the same outcome at every later sweep).
NewGame(c, g, playerName) ==
    LET game == [id |-> g,
                 players |-> <<[id |-> c, name |-> playerName, color |-> "w"]>>,
                 gameState |-> Null,
                 spectators |-> <<>>]
    IN  IF deployment = "api" THEN game @@ [createdAt |-> now] ELSE game

\* A create_game that announces the new game to every socket.
CreateGameAsAnnounced(c, g, playerName) ==
    /\ games' = Put(games, g, NewGame(c, g, playerName))
    /\ userGameMap' = Put(userGameMap, c, g)
    /\ rooms' = JoinRoom(c, g)
    /\ sent' = EmitTo(Conns, [ev |-> "game_created", gameId |-> g, color |-> "w"])
    /\ timers' = MarkTimers(g, FALSE)
    /\ last' = [op |-> "create_game"]
    /\ UNCHANGED <<deployment, tokens, connected, now>>

\* socket.on('create_game') with Math.random() giving the token g.
CreateGameAs(c, g, playerName) ==
    /\ games' = Put(games, g, NewGame(c, g, playerName))
    /\ userGameMap' = Put(userGameMap, c, g)
    /\ rooms' = JoinRoom(c, g)
    /\ sent' = EmitSelf(c, [ev |-> "game_created", gameId |-> g, color |-> "w"])
    /\ timers' = MarkTimers(g, FALSE)
    /\ last' = [op |-> "create_game"]
    /\ UNCHANGED <<deployment, tokens, connected, now>>

\* socket.on('create_game'): the token is drawn with no look at the keys of
\* games.
CreateGame(c, playerName) ==
    /\ c \in connected
    /\ Members < MaxMembers
    /\ \E g \in tokens : CreateGameAs(c, g, playerName)

\* A not-found branch that reports to every socket instead of the requester.
JoinMissingBroadcast(c, g) ==
    /\ sent' = EmitTo(Conns, [ev |-> "error", message |-> "Game not found"])
    /\ last' = [op |-> "join_game"]
    /\ UNCHANGED <<deployment, tokens, games, userGameMap, rooms, connected, timers, now>>

\* join_game, game not found.
JoinMissing(c, g) ==
    /\ sent' = EmitSelf(c, [ev |-> "error", message |-> "Game not found"])
    /\ last' = [op |-> "join_game"]
    /\ UNCHANGED <<deployment, tokens, games, userGameMap, rooms, connected, timers, now>>

\* A spectator branch that admits the socket and confirms nothing to it.
JoinAsSpectatorSilent(c, g, playerName) ==
    /\ Members < MaxMembers
    /\ games' = [games EXCEPT ![g].spectators =
                    Append(@, [id |-> c, name |-> playerName])]
    /\ userGameMap' = Put(userGameMap, c, g)
    /\ rooms' = JoinRoom(c, g)
    /\ sent' = EmitTo(rooms[g], [ev |-> "spectator_joined",
                                 spectator |-> playerName])
    /\ timers' = MarkTimers(g, TRUE)
    /\ last' = [op |-> "join_game"]
    /\ UNCHANGED <<deployment, tokens, connected, now>>

\* A spectator branch that hands out null in place of the stored gameState.
JoinAsSpectatorNoState(c, g, playerName) ==
    /\ Members < MaxMembers
    /\ games' = [games EXCEPT ![g].spectators =
                    Append(@, [id |-> c, name |-> playerName])]
    /\ userGameMap' = Put(userGameMap, c, g)
    /\ rooms' = JoinRoom(c, g)
    /\ sent' = EmitSelf(c, [ev |-> "joined_as_spectator", gameId |-> g,
                            gameState |-> Null])
               \o EmitTo(rooms'[g], [ev |-> "spectator_joined",
                                     spectator |-> playerName])
    /\ timers' = MarkTimers(g, TRUE)
    /\ last' = [op |-> "join_game"]
    /\ UNCHANGED <<deployment, tokens, connected, now>>

\* join_game, the branch taken when game.players.length >= 2.
JoinAsSpectator(c, g, playerName) ==
    /\ Members < MaxMembers
    /\ games' = [games EXCEPT ![g].spectators =
                    Append(@, [id |-> c, name |-> playerName])]
    /\ userGameMap' = Put(userGameMap, c, g)
    /\ rooms' = JoinRoom(c, g)
    /\ sent' = EmitSelf(c, [ev |-> "joined_as_spectator", gameId |-> g,
                            gameState |-> games[g].gameState])
               \o EmitTo(rooms'[g], [ev |-> "spectator_joined",
                                     spectator |-> playerName])
    /\ timers' = MarkTimers(g, TRUE)
    /\ last' = [op |-> "join_game"]
    /\ UNCHANGED <<deployment, tokens, connected, now>>

\* A player branch that hands the second player the color of the first.
JoinAsPlayerWhite(c, g, playerName) ==
    /\ Members < MaxMembers
    /\ games' = [games EXCEPT ![g].players =
                    Append(@, [id |-> c, name |-> playerName, color |-> "w"])]
    /\ userGameMap' = Put(userGameMap, c, g)
    /\ rooms' = JoinRoom(c, g)
    /\ sent' = EmitSelf(c, [ev |-> "game_joined", gameId |-> g, color |-> "w"])
               \o EmitTo({games[g].players[1].id},
                         [ev |-> "opponent_joined", opponentName |-> playerName])
    /\ timers' = MarkTimers(g, TRUE)
    /\ last' = [op |-> "join_game"]
    /\ UNCHANGED <<deployment, tokens, connected, now>>

\* join_game, the branch that adds the second player.
JoinAsPlayer(c, g, playerName) ==
    /\ Members < MaxMembers
    /\ games' = [games EXCEPT ![g].players =
                    Append(@, [id |-> c, name |-> playerName, color |-> "b"])]
    /\ userGameMap' = Put(userGameMap, c, g)
    /\ rooms' = JoinRoom(c, g)
    /\ sent' = EmitSelf(c, [ev |-> "game_joined", gameId |-> g, color |-> "b"])
               \o EmitTo({games[g].players[1].id},
                         [ev |-> "opponent_joined", opponentName |-> playerName])
    /\ timers' = MarkTimers(g, TRUE)
    /\ last' = [op |-> "join_game"]
    /\ UNCHANGED <<deployment, tokens, connected, now>>

\* A decision that counts only the players whose socket is still connected.
HasFreeSlotAmongConnected(game) ==
    ~(Cardinality({i \in 1..Len(game.players) :
                      game.players[i].id \in connected}) >= 2)

\* The decision with the comparison off by one.
HasFreeSlotOffByOne(game) == ~(Len(game.players) > 2)

\* The player-or-spectator decision of join_game.
HasFreeSlot(game) == ~(Len(game.players) >= 2)

\* socket.on('join_game').
JoinGame(c, g, playerName) ==
    /\ c \in connected
    /\ IF g \notin DOMAIN games
       THEN JoinMissing(c, g)
       ELSE IF HasFreeSlot(games[g])
            THEN JoinAsPlayer(c, g, playerName)
            ELSE JoinAsSpectator(c, g, playerName)

\* The sender of the move the last handler relayed, 0 when the last handler
\* relayed none.
LastMover == IF last.op = "make_move" /\ "from" \in DOMAIN last THEN last.from ELSE 0

\* A not-found branch that tells every socket.
MoveMissingBroadcast(c, g) ==
    /\ sent' = EmitTo(Conns, [ev |-> "error", message |-> "Game not found"])
    /\ last' = [op |-> "make_move"]
    /\ UNCHANGED games

\* make_move, game not found.
MoveMissing(c, g) ==
    /\ sent' = EmitSelf(c, [ev |-> "error", message |-> "Game not found"])
    /\ last' = [op |-> "make_move"]
    /\ UNCHANGED games

\* A relay that takes moves from the players of the game alone.
MoveRelayPlayersOnly(c, g, move, gameState) ==
    IF \E i \in 1..Len(games[g].players) : games[g].players[i].id = c
    THEN /\ games' = [games EXCEPT ![g].gameState = gameState]
         /\ sent' = EmitRoomExcept(g, c, [ev |-> "move_made", move |-> move,
                                          gameState |-> gameState])
         /\ last' = [op |-> "make_move", from |-> c, prev |-> LastMover]
    ELSE /\ sent' = <<>>
         /\ last' = [op |-> "make_move", from |-> c, prev |-> LastMover]
         /\ UNCHANGED games

\* A relay that echoes the move to its sender as well.
MoveRelayEcho(c, g, move, gameState) ==
    /\ games' = [games EXCEPT ![g].gameState = gameState]
    /\ sent' = EmitRoom(g, [ev |-> "move_made", move |-> move,
                            gameState |-> gameState])
    /\ last' = [op |-> "make_move", from |-> c, prev |-> LastMover]

\* make_move on a game of the registry: the state is stored and the move
\* relayed.  `from` and `prev` are not program state: the sender of this
\* move and of the move handled right before it, if any.
MoveRelay(c, g, move, gameState) ==
    /\ games' = [games EXCEPT ![g].gameState = gameState]
    /\ sent' = EmitRoomExcept(g, c, [ev |-> "move_made", move |-> move,
                                     gameState |-> gameState])
    /\ last' = [op |-> "make_move", from |-> c, prev |-> LastMover]

\* socket.on('make_move').
MakeMove(c, g, move, gameState) ==
    /\ c \in connected
    /\ IF g \notin DOMAIN games
       THEN MoveMissing(c, g)
       ELSE MoveRelay(c, g, move, gameState)
    /\ UNCHANGED <<deployment, tokens, userGameMap, rooms, connected, timers, now>>

\* A relay of chat that echoes the message to its sender as well.
SendMessageEcho(c, g, message, sender) ==
    /\ c \in connected
    /\ sent' = EmitRoom(g, [ev |-> "message_received",
                            message |-> message, sender |-> sender])
    /\ last' = [op |-> "send_message"]
    /\ UNCHANGED <<deployment, tokens, games, userGameMap, rooms, connected, timers, now>>

\* A game_over that records the result in the game.
GameOverStoresResult(c, g, result) ==
    /\ c \in connected
    /\ sent' = IF g \in DOMAIN games
               THEN EmitRoom(g, [ev |-> "game_ended", result |-> result])
               ELSE <<>>
    /\ games' = IF g \in DOMAIN games
                THEN [games EXCEPT ![g].gameState = result]
                ELSE games
    /\ last' = [op |-> "game_over"]
    /\ UNCHANGED <<deployment, tokens, userGameMap, rooms, connected, timers, now>>

\* A game_over that answers an unknown key with the not-found error.
GameOverReportsMissing(c, g, result) ==
    /\ c \in connected
    /\ sent' = IF g \in DOMAIN games
               THEN EmitRoom(g, [ev |-> "game_ended", result |-> result])
               ELSE EmitSelf(c, [ev |-> "error", message |-> "Game not found"])
    /\ last' = [op |-> "game_over"]
    /\ UNCHANGED <<deployment, tokens, games, userGameMap, rooms, connected, timers, now>>

\* A game_over that leaves the sender out of the announcement.
GameOverExceptSender(c, g, result) ==
    /\ c \in connected
    /\ sent' = IF g \in DOMAIN games
               THEN EmitRoomExcept(g, c, [ev |-> "game_ended", result |-> result])
               ELSE <<>>
    /\ last' = [op |-> "game_over"]
    /\ UNCHANGED <<deployment, tokens, games, userGameMap, rooms, connected, timers, now>>

\* socket.on('send_message'): no look at games.
SendMessage(c, g, message, sender) ==
    /\ c \in connected
    /\ sent' = EmitRoomExcept(g, c, [ev |-> "message_received",
                                     message |-> message, sender |-> sender])
    /\ last' = [op |-> "send_message"]
    /\ UNCHANGED <<deployment, tokens, games, userGameMap, rooms, connected, timers, now>>

\* socket.on('game_over').
GameOver(c, g, result) ==
    /\ c \in connected
    /\ sent' = IF g \in DOMAIN games
               THEN EmitRoom(g, [ev |-> "game_ended", result |-> result])
               ELSE <<>>
    /\ last' = [op |-> "game_over"]
    /\ UNCHANGED <<deployment, tokens, games, userGameMap, rooms, connected, timers, now>>

\* socket.on('ping') of part_000 and socket.on('heartbeat') of part_001: the
\* acknowledgement callback is called; server.js has neither.
Ping(c) ==
    /\ c \in connected
    /\ sent' = EmitSelf(c, [ev |-> "ack"])
    /\ last' = [op |-> "ping"]
    /\ UNCHANGED <<deployment, tokens, games, userGameMap, rooms, connected, timers, now>>

\* The game after the membership part of the disconnect handler: a socket
\* found in players stays there, otherwise its first spectators entry, if
\* any, is spliced out.
RemoveParticipant(game, c) ==
    IF FindIndex(game.players, c) # 0
    THEN game
    ELSE IF FindIndex(game.spectators, c) # 0
         THEN [game EXCEPT !.spectators = Splice(@, FindIndex(@, c))]
         ELSE game

\* What the disconnect handler broadcasts: player_disconnected to the room
\* when the socket is found in players.  socket.io has taken the socket out
\* of its rooms before 'disconnect' is emitted.
DisconnectNotice(game, c) ==
    IF FindIndex(game.players, c) # 0
    THEN EmitRoomExcept(game.id, c,
            [ev |-> "player_disconnected",
             name |-> game.players[FindIndex(game.players, c)].name])
    ELSE <<>>

\* A decision that arms the timer at every disconnect.
ArmsTimerAlways(game) == deployment = "server"

\* Whether the disconnect handler calls setTimeout: server.js and part_000
\* do when the game passes the clean-up condition, part_001 never does.
ArmsTimer(game) == deployment = "server" /\ IsEmptyGame(game)

\* A disconnect that arms the timer for the key of the socket's last request
\* without looking the game up.
DisconnectNoGameArmsTimer(c) ==
    /\ sent' = <<>>
    /\ last' = [op |-> "disconnect"]
    /\ timers' = IF deployment = "server"
                 THEN Append(timers, [gameId |-> CHOOSE g \in tokens : TRUE,
                                      joined |-> FALSE])
                 ELSE timers
    /\ userGameMap' = Delete(userGameMap, c)
    /\ UNCHANGED games

\* The disconnect handler when userGameMap has no entry for the socket, or
\* the entry names a key that is not in games: the condition of the handler
\* is false and nothing is done.
DisconnectNoGame(c) ==
    /\ sent' = <<>>
    /\ last' = [op |-> "disconnect"]
    /\ UNCHANGED <<games, userGameMap, timers>>

\* A disconnect that drops the userGameMap entry of every socket of the game.
DisconnectForgetsGame(c) ==
    /\ c \in connected
    /\ connected' = connected \ {c}
    /\ rooms' = [g \in GameIds |-> rooms[g] \ {c}]
    /\ IF c \in DOMAIN userGameMap /\ userGameMap[c] \in DOMAIN games
       THEN LET g == userGameMap[c]
                game == RemoveParticipant(games[g], c)
            IN  /\ games' = [games EXCEPT ![g] = game]
                /\ sent' = DisconnectNotice(games[g], c)
                /\ timers' = IF ArmsTimer(game)
                             THEN Append(timers, [gameId |-> g, joined |-> FALSE])
                             ELSE timers
                /\ userGameMap' = [d \in {e \in DOMAIN userGameMap :
                                              userGameMap[e] # g}
                                     |-> userGameMap[d]]
                /\ last' = [op |-> "disconnect"]
       ELSE DisconnectNoGame(c)
    /\ UNCHANGED <<deployment, tokens, now>>

\* socket.on('disconnect').
Disconnect(c) ==
    /\ c \in connected
    /\ connected' = connected \ {c}
    /\ rooms' = [g \in GameIds |-> rooms[g] \ {c}]
    /\ IF c \in DOMAIN userGameMap /\ userGameMap[c] \in DOMAIN games
       THEN LET g == userGameMap[c]
                game == RemoveParticipant(games[g], c)
            IN  /\ games' = [games EXCEPT ![g] = game]
                /\ sent' = DisconnectNotice(games[g], c)
                /\ timers' = IF ArmsTimer(game)
                             THEN Append(timers, [gameId |-> g, joined |-> FALSE])
                             ELSE timers
                /\ userGameMap' = Delete(userGameMap, c)
                /\ last' = [op |-> "disconnect"]
       ELSE DisconnectNoGame(c)
    /\ UNCHANGED <<deployment, tokens, now>>

\* A timer callback that, finding nothing to delete under its key, clears the
\* registry of every game that passes the clean-up condition.
TimerCallbackSweepsAll(g) ==
    IF g \in DOMAIN games /\ IsEmptyGame(games[g])
    THEN Delete(games, g)
    ELSE [h \in {k \in DOMAIN games : ~IsEmptyGame(games[k])} |-> games[h]]

\* A timer callback that trusts the decision taken when it was armed.
TimerCallbackNoRecheck(g) ==
    IF g \in DOMAIN games THEN Delete(games, g) ELSE games

\* The setTimeout callback on the captured gameId: games after it ran.
TimerCallback(g) ==
    IF g \in DOMAIN games /\ IsEmptyGame(games[g])
    THEN Delete(games, g)
    ELSE games

\* The oldest pending timer fires: every timer has the same delay, so they
\* fire in the order they were armed.  `deleted` is not program state: it
\* records whether this callback took a game out of the registry.
TimerFire ==
    /\ timers # <<>>
    /\ games' = TimerCallback(Head(timers).gameId)
    /\ timers' = Tail(timers)
    /\ sent' = <<>>
    /\ last' = [op |-> "timer", gameId |-> Head(timers).gameId,
                joined |-> Head(timers).joined,
                deleted |-> Head(timers).gameId \in DOMAIN games
                            /\ Head(timers).gameId \notin DOMAIN games']
    /\ UNCHANGED <<deployment, tokens, userGameMap, rooms, connected, now>>

\* A collection that takes a game at the maximum age for stale.
StaleGameIdsInclusive(t) == {g \in DOMAIN games : t - games[g].createdAt >= MaxAgeMs}

\* The keys the sweep collects in staleGameIds at time t.
StaleGameIds(t) == {g \in DOMAIN games : t - games[g].createdAt > MaxAgeMs}

\* n consecutive runs of the setInterval callback of part_001 with no
\* request between them: n periods pass, and what the last run finds stale
\* includes what the earlier ones deleted.
Sweep(n) ==
    /\ deployment = "api"
    /\ now + n * SweepIntervalMs <= MaxSweeps * SweepIntervalMs
    /\ now' = now + n * SweepIntervalMs
    /\ games' = [g \in DOMAIN games \ StaleGameIds(now') |-> games[g]]
    /\ sent' = <<>>
    /\ last' = [op |-> "sweep"]
    /\ UNCHANGED <<deployment, tokens, userGameMap, rooms, connected, timers>>

\* ------------------------------------------------------------------- Next

Next ==
    \/ \E c \in Conns : CreateGame(c, NameOf[c])
    \/ \E c \in Conns, g \in tokens : JoinGame(c, g, NameOf[c])
    \/ \E c \in Conns, g \in tokens, m \in Moves, s \in States : MakeMove(c, g, m, s)
    \/ \E c \in Conns, g \in tokens, t \in Texts : SendMessage(c, g, t, NameOf[c])
    \/ \E c \in Conns, g \in tokens, r \in Texts : GameOver(c, g, r)
    \/ \E c \in Conns : Ping(c)
    \/ \E c \in Conns : Disconnect(c)
    \/ TimerFire
    \/ \E n \in SweepRuns : Sweep(n)

Spec == Init /\ [][Next]_vars

\* The runs in which Math.random never yields the key of a live game: a
\* create_game step leaves every game of the registry as it was.
NoKeyReuse == \A g \in DOMAIN games : g \in DOMAIN games' /\ games'[g] = games[g]

NextFresh == Next /\ (last'.op = "create_game" => NoKeyReuse)

SpecFresh == Init /\ [][NextFresh]_vars

\* JavaScript undefined: the playerName of a payload that carries none.
Undefined == "undefined"

\* The requests of Next and, besides, create_game and join_game requests
\* whose payload carries no playerName.
NextAnon ==
    \/ Next
    \/ \E c \in Conns : CreateGame(c, Undefined)
    \/ \E c \in Conns, g \in tokens : JoinGame(c, g, Undefined)

\* The start of a run with at most two sockets.
InitAnon == Init /\ Cardinality(connected) <= 2

\* The runs with at most two sockets in which a client may leave the name
\* out.
SpecAnon == InitAnon /\ [][NextAnon]_vars

\* ------------------------------------------------- vocabulary of the claims

\* The socket ids of an array of players or spectators.
IdsOf(arr) == {arr[i].id : i \in 1..Len(arr)}

\* The sockets a game lists.
Listed(game) == IdsOf(game.players) \cup IdsOf(game.spectators)

\* How many entries of a game name socket c.
Entries(game, c) ==
    Cardinality({i \in 1..Len(game.players) : game.players[i].id = c})
    + Cardinality({i \in 1..Len(game.spectators) : game.spectators[i].id = c})

\* A timer that captured gameId g is pending.
TimerPending(g) == \E i \in 1..Len(timers) : timers[i].gameId = g

\* The players of a game whose socket is still connected.
ConnectedPlayers(game) ==
    {i \in 1..Len(game.players) : game.players[i].id \in connected}

\* ------------------------------------------------------------------ claims

\* C1: when a timer fires for a game that join_game has admitted somebody to
\* since the timer was armed, the firing does not delete the game: its key is
\* still in the registry afterwards.
C1_JoinedGameSurvivesTimer ==
    [][(TimerFire /\ Head(timers).joined)
        => Head(timers).gameId \in DOMAIN games']_vars

\* A timer has just fired for a game that was joined after it was armed, and
\* the game is in the registry.
C1_TimerFiredAfterJoin ==
    /\ last.op = "timer"
    /\ last.joined
    /\ last.gameId \in DOMAIN games

\* C2 (as claimed): a game whose only player has disconnected and that has no
\* spectators has a clean-up timer pending for as long as it is in the
\* registry of the custom server, so that the timer deletes it.
C2_SolePlayerGoneHasTimer ==
    deployment = "server" =>
        \A g \in DOMAIN games :
            (/\ Len(games[g].players) = 1
             /\ Len(games[g].spectators) = 0
             /\ games[g].players[1].id \notin connected)
            => TimerPending(g)

\* C3: every game of the registry has at most two players.
C3_AtMostTwoPlayers == \A g \in DOMAIN games : Len(games[g].players) <= 2

\* A join_game has just found both player slots taken.
C3_JoinFoundSlotsTaken ==
    /\ last.op = "join_game"
    /\ \E g \in DOMAIN games :
          Len(games[g].players) = 2 /\ Len(games[g].spectators) >= 1

\* C4 (as claimed): every entry of userGameMap names a game that is in the
\* registry and that lists the socket among its players or spectators.
C4_ReverseIndexConsistent ==
    \A c \in DOMAIN userGameMap :
        /\ userGameMap[c] \in DOMAIN games
        /\ c \in Listed(games[userGameMap[c]])

\* C5 (as claimed): a socket is listed by at most one game, and at most once
\* by that game.
C5_ListedAtMostOnce ==
    \A c \in Conns :
        /\ Cardinality({g \in DOMAIN games : c \in Listed(games[g])}) <= 1
        /\ \A g \in DOMAIN games : Entries(games[g], c) <= 1

\* C6 (as claimed): the token create_game assigns is not the key of a game
\* that is in the registry, so no game is replaced.
C6_CreateAssignsFreshKey ==
    [][\A c \in Conns, g \in GameIds :
          CreateGameAs(c, g, NameOf[c]) => g \notin DOMAIN games]_vars

\* The replies a handler sent to socket c: the confirmations of a join and
\* the error event, in the order sent.
Replies(events, c) ==
    SelectSeq(events, LAMBDA e : e.to = c /\ e.ev \in {"game_joined",
                                    "joined_as_spectator", "error"})

\* C7: a join_game naming a game with exactly one player appends the
\* requester as the second player and answers it game_joined alone; the
\* join_game of another socket handled right after it leaves the players as
\* they are, appends that requester to the spectators and answers it
\* joined_as_spectator alone.  Whichever of two sockets comes first, one is
\* the second player, the other a spectator, and each has its confirmation.
C7_TwoJoinsPlayerThenSpectator ==
    [][\A c \in Conns, g \in GameIds :
          /\ (/\ g \in DOMAIN games
              /\ Len(games[g].players) = 1
              /\ JoinGame(c, g, NameOf[c]))
             => /\ games'[g].players = Append(games[g].players,
                        [id |-> c, name |-> NameOf[c], color |-> "b"])
                /\ games'[g].spectators = games[g].spectators
                /\ Replies(sent', c) = <<[to |-> c, ev |-> "game_joined",
                                         gameId |-> g, color |-> "b"]>>
          /\ (/\ last.op = "join_game"
              /\ \E c1 \in Conns \ {c} :
                    Replies(sent, c1) = <<[to |-> c1, ev |-> "game_joined",
                                           gameId |-> g, color |-> "b"]>>
              /\ JoinGame(c, g, NameOf[c]))
             => /\ games'[g].players = games[g].players
                /\ Len(games[g].players) = 2
                /\ games'[g].spectators = Append(games[g].spectators,
                        [id |-> c, name |-> NameOf[c]])
                /\ Replies(sent', c) = <<[to |-> c, ev |-> "joined_as_spectator",
                                         gameId |-> g,
                                         gameState |-> games[g].gameState]>>]_vars

\* Two sockets other than the creator have joined a game: the first is its
\* second player, the second its spectator and has just been told so.
C7_PlayerAndSpectatorAdmitted ==
    /\ last.op = "join_game"
    /\ \E g \in DOMAIN games, c1, c2 \in Conns :
          /\ c1 # c2
          /\ Len(games[g].players) = 2
          /\ games[g].players[1].id \notin {c1, c2}
          /\ games[g].players[2].id = c1
          /\ IdsOf(games[g].spectators) = {c2}
          /\ Replies(sent, c2) = <<[to |-> c2, ev |-> "joined_as_spectator",
                                   gameId |-> g,
                                   gameState |-> games[g].gameState]>>

\* C8 (as claimed): the disconnect of a socket whose userGameMap entry names
\* a game of the registry leaves the socket in neither the players nor the
\* spectators of that game, and removes the entry.
C8_DisconnectRemovesParticipant ==
    [][\A c \in Conns :
          (/\ Disconnect(c)
           /\ c \in DOMAIN userGameMap
           /\ userGameMap[c] \in DOMAIN games)
          => /\ c \notin Listed(games'[userGameMap[c]])
             /\ c \notin DOMAIN userGameMap']_vars

\* C9 (as claimed): when a disconnect handled by the custom server leaves the
\* socket's game (one that lists no socket twice) with no player still
\* connected, or with one such player and no spectators, a timer for that
\* game is pending afterwards.
C9_VacatedGameArmsTimer ==
    [][\A c \in Conns :
          (/\ deployment = "server"
           /\ Disconnect(c)
           /\ c \in DOMAIN userGameMap
           /\ userGameMap[c] \in DOMAIN games
           /\ \A d \in Conns : Entries(games[userGameMap[c]], d) <= 1
           /\ LET game == games'[userGameMap[c]]
                  remaining == {i \in 1..Len(game.players) :
                                   game.players[i].id \in connected'}
              IN  \/ remaining = {}
                  \/ (Cardinality(remaining) = 1 /\ Len(game.spectators) = 0))
          => \E i \in 1..Len(timers') : timers'[i].gameId = userGameMap[c]]_vars

\* C10: a join_game naming a key that is not in the registry sends one error
\* event, to the requester, and nothing else; games, userGameMap, the rooms
\* and the timers are left as they were.
C10_JoinMissingOnlyReportsToRequester ==
    [][\A c \in Conns, g \in GameIds :
          (g \notin DOMAIN games /\ JoinGame(c, g, NameOf[c]))
          => /\ sent' = <<[to |-> c, ev |-> "error",
                           message |-> "Game not found"]>>
             /\ UNCHANGED <<games, userGameMap, rooms, timers>>]_vars

\* A join_game has just been answered with the not-found error.
C10_JoinMissingAnswered ==
    /\ last.op = "join_game"
    /\ \E c \in connected :
          sent = <<[to |-> c, ev |-> "error", message |-> "Game not found"]>>

\* C11: a make_move naming a key that is not in the registry sends one error
\* event, to the requester, and no move_made to anybody; games, userGameMap,
\* the rooms and the timers are left as they were.
C11_MoveMissingOnlyReportsToRequester ==
    [][\A c \in Conns, g \in GameIds, move \in Moves, gameState \in States :
          (g \notin DOMAIN games /\ MakeMove(c, g, move, gameState))
          => /\ sent' = <<[to |-> c, ev |-> "error",
                           message |-> "Game not found"]>>
             /\ UNCHANGED <<games, userGameMap, rooms, timers>>]_vars

\* A make_move has just been answered with the not-found error while another
\* socket was connected.
C11_MoveMissingAnswered ==
    /\ last.op = "make_move"
    /\ \E c \in connected :
          /\ sent = <<[to |-> c, ev |-> "error", message |-> "Game not found"]>>
          /\ connected \ {c} # {}

\* The sockets the events of a handler were delivered to.
Recipients(events) == {events[i].to : i \in 1..Len(events)}

\* C12: a make_move naming a game of the registry stores the gameState of the
\* request in that game and delivers move_made with the move and that
\* gameState, once, to every connected socket the game lists other than the
\* sender, its spectators included, and never to the sender; so it is for a
\* move handled right after the move of another sender.
C12_MoveStoredAndRelayedToOthers ==
    [][\A c \in Conns, g \in GameIds, move \in Moves, gameState \in States :
          (g \in DOMAIN games /\ MakeMove(c, g, move, gameState))
          => /\ games'[g].gameState = gameState
             /\ \A d \in (Listed(games[g]) \cap connected) \ {c} :
                   SelectSeq(sent', LAMBDA e : e.to = d)
                     = <<[to |-> d, ev |-> "move_made", move |-> move,
                          gameState |-> gameState]>>
             /\ c \notin Recipients(sent')]_vars

\* Two moves from different senders have been handled one after the other in
\* a game with a spectator: the second one went to the first mover and to the
\* spectator, not to its sender.
C12_SecondMoveRelayed ==
    /\ last.op = "make_move"
    /\ "from" \in DOMAIN last
    /\ last.prev # 0
    /\ last.prev # last.from
    /\ \E g \in DOMAIN games :
          /\ last.from \in IdsOf(games[g].players)
          /\ last.prev \in IdsOf(games[g].players)
          /\ \E d \in IdsOf(games[g].spectators) \ IdsOf(games[g].players) :
                Recipients(sent) = {last.prev, d}

\* C13: the joined_as_spectator a new spectator receives carries the
\* gameState of the last make_move handled for the game since create_game
\* stored it, null when there was none: the game a create_game stores has
\* gameState null, only a make_move naming the game changes its gameState,
\* to the gameState of the request, and the spectator branch of join_game
\* sends the requester the stored value as it is.
C13_SpectatorGetsLastMoveState ==
    [][/\ \A g \in DOMAIN games' :
             \/ /\ g \in DOMAIN games
                /\ games'[g].gameState = games[g].gameState
             \/ \E c \in Conns, move \in Moves, gameState \in States :
                   /\ g \in DOMAIN games
                   /\ MakeMove(c, g, move, gameState)
                   /\ games'[g].gameState = gameState
             \/ \E c \in Conns :
                   /\ CreateGameAs(c, g, NameOf[c])
                   /\ games'[g].gameState = Null
       /\ \A c \in Conns, g \in GameIds :
             (/\ g \in DOMAIN games
              /\ Len(games[g].players) >= 2
              /\ JoinGame(c, g, NameOf[c]))
             => SelectSeq(sent', LAMBDA e : e.to = c /\ e.ev = "joined_as_spectator")
                  = <<[to |-> c, ev |-> "joined_as_spectator", gameId |-> g,
                       gameState |-> games[g].gameState]>>]_vars

\* A spectator has just been admitted to a game in which a move had been
\* made, and was sent the gameState of that move.
C13_SpectatorSentMoveState ==
    /\ last.op = "join_game"
    /\ \E i \in 1..Len(sent) :
          /\ sent[i].ev = "joined_as_spectator"
          /\ sent[i].gameState \in States
          /\ games[sent[i].gameId].gameState = sent[i].gameState

\* C14 (as claimed): when join_game admits a socket as a spectator of a game
\* that lists no socket twice, spectator_joined with its name is delivered to
\* every other connected socket the game lists and is not delivered to the
\* socket that joined.
C14_SpectatorJoinedNotSentToJoiner ==
    [][\A c \in Conns, g \in GameIds :
          (/\ g \in DOMAIN games
           /\ Len(games[g].players) >= 2
           /\ c \notin Listed(games[g])
           /\ \A d \in Conns : Entries(games[g], d) <= 1
           /\ JoinGame(c, g, NameOf[c]))
          => LET notices == SelectSeq(sent', LAMBDA e : e.ev = "spectator_joined")
             IN  /\ \A i \in 1..Len(notices) : notices[i].spectator = NameOf[c]
                 /\ Recipients(notices) = (Listed(games[g]) \cap connected) \ {c}]_vars

\* The events of a handler with this name.
Events(events, ev) == SelectSeq(events, LAMBDA e : e.ev = ev)

\* C15 (as claimed): a join_game naming a game of the registry with fewer
\* than 2 players (one that does not list the requester) appends the
\* requester to its players, sends the requester game_joined with color 'b',
\* and delivers opponent_joined with the requester's name to the first player
\* of the game and to nobody else; a join_game naming a game with 2 players
\* appends the requester to its spectators and leaves its players as they
\* were.
C15_JoinAdmitsAndTellsFirstPlayer ==
    [][\A c \in Conns, g \in GameIds :
          /\ (/\ g \in DOMAIN games
              /\ Len(games[g].players) < 2
              /\ c \notin Listed(games[g])
              /\ JoinGame(c, g, NameOf[c]))
             => /\ games'[g].players = Append(games[g].players,
                        [id |-> c, name |-> NameOf[c], color |-> "b"])
                /\ Events(sent', "game_joined")
                     = <<[to |-> c, ev |-> "game_joined", gameId |-> g,
                          color |-> "b"]>>
                /\ Events(sent', "opponent_joined")
                     = <<[to |-> games[g].players[1].id, ev |-> "opponent_joined",
                          opponentName |-> NameOf[c]]>>
          /\ (/\ g \in DOMAIN games
              /\ Len(games[g].players) = 2
              /\ JoinGame(c, g, NameOf[c]))
             => /\ games'[g].spectators = Append(games[g].spectators,
                        [id |-> c, name |-> NameOf[c]])
                /\ games'[g].players = games[g].players]_vars

\* C16: in every game of the registry the first player has color 'w' and the
\* second player, when there is one, color 'b'; no two players of a game
\* have the same color.
C16_FirstWhiteSecondBlack ==
    \A g \in DOMAIN games :
        LET players == games[g].players
        IN  /\ Len(players) >= 1 => players[1].color = "w"
            /\ Len(players) >= 2 => players[2].color = "b"
            /\ \A i, j \in 1..Len(players) :
                  i # j => players[i].color # players[j].color

\* A second player has just joined a game and been told its color.
C16_SecondPlayerColored ==
    /\ last.op = "join_game"
    /\ \E g \in DOMAIN games :
          /\ Len(games[g].players) = 2
          /\ Events(sent, "game_joined")
               = <<[to |-> games[g].players[2].id, ev |-> "game_joined",
                    gameId |-> g, color |-> games[g].players[2].color]>>

\* The connected sockets that the game under key g lists once a handler has
\* run, without the sockets of `excluded`; none when no game is under g.
Audience(g, excluded) ==
    IF g \in DOMAIN games'
    THEN (Listed(games'[g]) \cap connected') \ excluded
    ELSE {}

\* C17 (as claimed): every broadcast to a game reaches exactly the connected
\* sockets that the game lists at that moment, without the sender where the
\* handler leaves the sender out: move_made and message_received (sender left
\* out), game_ended, player_disconnected (sent for the socket that left) and
\* spectator_joined (checked for the sockets other than the one that joined).
C17_BroadcastReachesExactlyListed ==
    [][/\ \A c \in Conns, g \in GameIds, move \in Moves, gameState \in States :
             MakeMove(c, g, move, gameState)
             => Recipients(Events(sent', "move_made")) = Audience(g, {c})
       /\ \A c \in Conns, g \in GameIds, t \in Texts :
             SendMessage(c, g, t, NameOf[c])
             => Recipients(Events(sent', "message_received")) = Audience(g, {c})
       /\ \A c \in Conns, g \in GameIds, r \in Texts :
             GameOver(c, g, r)
             => Recipients(Events(sent', "game_ended")) = Audience(g, {})
       /\ \A c \in Conns, g \in GameIds :
             (JoinGame(c, g, NameOf[c]) /\ Events(sent', "spectator_joined") # <<>>)
             => Recipients(Events(sent', "spectator_joined")) \ {c} = Audience(g, {c})
       /\ \A c \in Conns :
             (Disconnect(c) /\ Events(sent', "player_disconnected") # <<>>)
             => Recipients(Events(sent', "player_disconnected"))
                  = Audience(userGameMap[c], {c})]_vars

\* C18: a run of the sweep deletes every game whose age (the time of the run
\* less createdAt) exceeds the maximum age, whoever is still connected to it,
\* and leaves every other game in the registry as it was.
C18_SweepDeletesExactlyStale ==
    [][\A n \in SweepRuns :
          Sweep(n)
          => /\ \A g \in DOMAIN games :
                   IF now' - games[g].createdAt > MaxAgeMs
                   THEN g \notin DOMAIN games'
                   ELSE g \in DOMAIN games' /\ games'[g] = games[g]
             /\ DOMAIN games' \subseteq DOMAIN games]_vars

\* The sweep has just run: a game whose creator is still connected is gone
\* from the registry and a younger game is still there.
C18_SweptOccupiedKeptYoung ==
    /\ last.op = "sweep"
    /\ \E g \in tokens \ DOMAIN games : rooms[g] \cap connected # {}
    /\ \E h \in DOMAIN games : now - games[h].createdAt > 0

\* C19 (as claimed): after the disconnect of a socket has been handled,
\* userGameMap has no entry for that socket, whatever became of the game the
\* entry named.
C19_DisconnectDropsIndexEntry ==
    [][\A c \in Conns : Disconnect(c) => c \notin DOMAIN userGameMap']_vars

\* C20: when the disconnect of a socket found among the players of its game
\* is handled and the game has spectators, the spectators of the game are
\* left as they were and no timer is armed; the disconnect of a socket found
\* among the spectators leaves the players of the game as they were.
C20_RolesIndependentAtDisconnect ==
    [][\A c \in Conns :
          (/\ Disconnect(c)
           /\ c \in DOMAIN userGameMap
           /\ userGameMap[c] \in DOMAIN games)
          => LET game == games[userGameMap[c]]
                 after == games'[userGameMap[c]]
             IN  /\ (c \in IdsOf(game.players) /\ Len(game.spectators) >= 1)
                    => /\ after.spectators = game.spectators
                       /\ timers' = timers
                 /\ c \in IdsOf(game.spectators)
                    => after.players = game.players]_vars

\* The custom server has just handled the disconnect of a player of a game
\* with a spectator: the spectator was told, is still listed, and no timer is
\* pending.
C20_PlayerLeftSpectatorStays ==
    /\ deployment = "server"
    /\ last.op = "disconnect"
    /\ timers = <<>>
    /\ \E g \in DOMAIN games :
          /\ \E i \in 1..Len(games[g].players) :
                games[g].players[i].id \notin connected
          /\ \E d \in IdsOf(games[g].spectators) \cap connected :
                d \in Recipients(Events(sent, "player_disconnected"))

\* C21: when a timer fires for a key that is not in the registry, or whose
\* game does not pass the clean-up condition (no player, or one player and no
\* spectators), nothing is deleted: games and userGameMap are left as they
\* were.  A key that is absent stays absent, so of several timers firing for
\* one key with no request between them only the first can delete.
C21_TimerOnAbsentOrOccupiedIsNoOp ==
    [][(/\ TimerFire
        /\ \/ Head(timers).gameId \notin DOMAIN games
           \/ ~IsEmptyGame(games[Head(timers).gameId]))
       => UNCHANGED <<games, userGameMap>>]_vars

\* A timer has just fired for a key that was no longer in the registry.
C21_TimerFoundKeyAbsent ==
    /\ last.op = "timer"
    /\ ~last.deleted
    /\ last.gameId \notin DOMAIN games

\* C22: a create_game is handled whatever the state of the registry and puts
\* under its token a game whose players are the requester alone, with color
\* 'w', with no spectators and gameState null; userGameMap then maps the
\* requester to the token, and game_created with the token and 'w' is sent to
\* the requester and nothing to anybody else.
C22_CreateStoresGameAndAnswersRequester ==
    [][\A c \in Conns, g \in GameIds :
          CreateGameAs(c, g, NameOf[c])
          => /\ g \in DOMAIN games'
             /\ games'[g].players = <<[id |-> c, name |-> NameOf[c], color |-> "w"]>>
             /\ games'[g].spectators = <<>>
             /\ games'[g].gameState = Null
             /\ c \in DOMAIN userGameMap' /\ userGameMap'[c] = g
             /\ \A d \in DOMAIN userGameMap' \ {c} :
                   d \in DOMAIN userGameMap /\ userGameMap'[d] = userGameMap[d]
             /\ sent' = <<[to |-> c, ev |-> "game_created", gameId |-> g,
                           color |-> "w"]>>]_vars

\* A create_game has just been answered while other sockets were connected,
\* one of them in a game of its own.
C22_GameCreatedBesideAnother ==
    /\ last.op = "create_game"
    /\ \E c \in connected :
          /\ Len(sent) = 1 /\ sent[1].to = c /\ sent[1].ev = "game_created"
          /\ c \in DOMAIN userGameMap /\ userGameMap[c] = sent[1].gameId
          /\ \E d \in connected \ {c} :
                d \in DOMAIN userGameMap /\ userGameMap[d] # userGameMap[c]

\* C23: a send_message is relayed whatever the registry holds: where the key
\* names a game, message_received with the message and the sender's name is
\* delivered, once, to every connected socket the game lists other than the
\* sending socket; it is never delivered to the sending socket; games and
\* userGameMap are left as they were.
C23_ChatRelayedToOthers ==
    [][\A c \in Conns, g \in GameIds, t \in Texts :
          SendMessage(c, g, t, NameOf[c])
          => /\ g \in DOMAIN games
                => \A d \in (Listed(games[g]) \cap connected) \ {c} :
                      SelectSeq(sent', LAMBDA e : e.to = d)
                        = <<[to |-> d, ev |-> "message_received",
                             message |-> t, sender |-> NameOf[c]]>>
             /\ c \notin Recipients(sent')
             /\ UNCHANGED <<games, userGameMap>>]_vars

\* A chat message has just been relayed to a player and a spectator of a game
\* and not to the other player.
C23_ChatReachedPlayerAndSpectator ==
    /\ last.op = "send_message"
    /\ \E g \in DOMAIN games :
          /\ Len(games[g].players) = 2
          /\ IdsOf(games[g].players) \cap Recipients(sent) # {}
          /\ IdsOf(games[g].players) \ Recipients(sent) # {}
          /\ IdsOf(games[g].spectators) \cap Recipients(sent) # {}
          /\ \A i \in 1..Len(sent) : sent[i].ev = "message_received"

\* C24: a game_over naming a game of the registry delivers game_ended with
\* the result, once, to every connected socket the game lists, the sender
\* among them, and leaves games, userGameMap and the timers as they were: the
\* game stays in the registry with its players, spectators and gameState, and
\* a make_move handled right after it is stored and relayed as ever.
C24_GameOverAnnouncedGameKept ==
    [][\A c \in Conns, g \in GameIds :
          /\ \A r \in Texts :
                (g \in DOMAIN games /\ GameOver(c, g, r))
                => /\ \A d \in Listed(games[g]) \cap connected :
                         SelectSeq(sent', LAMBDA e : e.to = d)
                           = <<[to |-> d, ev |-> "game_ended", result |-> r]>>
                   /\ UNCHANGED <<games, userGameMap, timers>>
          /\ \A move \in Moves, gameState \in States :
                (/\ last.op = "game_over"
                 /\ g \in DOMAIN games
                 /\ MakeMove(c, g, move, gameState))
                => /\ games'[g].gameState = gameState
                   /\ ((Listed(games[g]) \cap connected) \ {c})
                        \subseteq Recipients(Events(sent', "move_made"))]_vars

\* A game_over has just been announced to every connected socket, the sender
\* therefore among them, and the game is still in the registry.
C24_GameEndedToldToAll ==
    /\ last.op = "game_over"
    /\ Cardinality(connected) >= 2
    /\ Recipients(Events(sent, "game_ended")) = connected
    /\ \E g \in DOMAIN games : Listed(games[g]) \cap connected = connected

\* C25 (as claimed): when the disconnect of a socket is handled, every game
\* of the registry that lists the socket among its players has
\* player_disconnected with that player's name delivered to each of its other
\* connected sockets; the socket itself receives nothing; and when no game
\* lists the socket among its players nothing is delivered to anybody.
C25_PlayerDisconnectTellsTheGame ==
    [][\A c \in Conns :
          Disconnect(c)
          => /\ \A g \in DOMAIN games :
                   c \in IdsOf(games[g].players)
                   => \A d \in (Listed(games[g]) \cap connected) \ {c} :
                         \E i \in 1..Len(sent') :
                            sent'[i] = [to |-> d, ev |-> "player_disconnected",
                                        name |-> games[g].players[
                                            FindIndex(games[g].players, c)].name]
             /\ c \notin Recipients(sent')
             /\ (\A g \in DOMAIN games : c \notin IdsOf(games[g].players))
                => sent' = <<>>]_vars

\* C26 (as claimed): a create_game or join_game whose payload carries no
\* playerName is answered with an error event sent to the requester alone,
\* and games and userGameMap are left as they were.
C26_NamelessRequestRejected ==
    [][\A c \in Conns :
          /\ CreateGame(c, Undefined)
             => /\ Recipients(Events(sent', "error")) = {c}
                /\ UNCHANGED <<games, userGameMap>>
          /\ \A g \in GameIds :
                JoinGame(c, g, Undefined)
                => /\ Recipients(Events(sent', "error")) = {c}
                   /\ UNCHANGED <<games, userGameMap>>]_vars

\* C27: once a game has two players, its players stay as they are for as long
\* as the game is in the registry, whoever disconnects, and every join_game
\* naming it appends the requester to the spectators and answers
\* joined_as_spectator: nobody else ever takes a player slot of that game.
\* (A create_game that assigns the key again stores another game.)
C27_PlayerSlotsStayTaken ==
    [][\A g \in DOMAIN games :
          Len(games[g].players) = 2
          => /\ \/ g \notin DOMAIN games'
                \/ games'[g].players = games[g].players
                \/ \E c \in Conns : CreateGameAs(c, g, NameOf[c])
             /\ \A c \in Conns :
                   JoinGame(c, g, NameOf[c])
                   => /\ games'[g].spectators = Append(games[g].spectators,
                              [id |-> c, name |-> NameOf[c]])
                      /\ Events(sent', "game_joined") = <<>>
                      /\ Recipients(Events(sent', "joined_as_spectator")) = {c}]_vars

\* A socket has just joined a game both of whose players had disconnected,
\* and was admitted as a spectator.
C27_LateJoinerIsSpectator ==
    /\ last.op = "join_game"
    /\ \E g \in DOMAIN games :
          /\ Cardinality(IdsOf(games[g].players)) = 2
          /\ IdsOf(games[g].players) \cap connected = {}
          /\ \E c \in connected :
                /\ c \in IdsOf(games[g].spectators)
                /\ Recipients(Events(sent, "joined_as_spectator")) = {c}

\* C28: the disconnect of a socket that has no entry in userGameMap leaves
\* games, userGameMap and the timers as they were and delivers no event.
C28_DisconnectWithoutEntryIsNoOp ==
    [][\A c \in Conns :
          (Disconnect(c) /\ c \notin DOMAIN userGameMap)
          => /\ UNCHANGED <<games, userGameMap, timers>>
             /\ sent' = <<>>]_vars

\* A socket that never created or joined a game has just disconnected while
\* another socket had a game of its own.
C28_OutsiderDisconnected ==
    /\ last.op = "disconnect"
    /\ sent = <<>>
    /\ timers = <<>>
    /\ DOMAIN games # {}
    /\ \E c \in Conns \ connected :
          /\ c \notin DOMAIN userGameMap
          /\ \A g \in DOMAIN games : c \notin Listed(games[g])
          /\ \A d \in Conns \ {c} : d \in connected \/ d \in DOMAIN userGameMap

\* C30 (as claimed): a timer never takes out of the registry a game that
\* lists, among its players or spectators, a socket that is still connected.
C30_TimerSparesOccupiedGame ==
    [][\A g \in DOMAIN games :
          (TimerFire /\ g \notin DOMAIN games')
          => Listed(games[g]) \cap connected = {}]_vars

\* C31 (as claimed): a make_move whose sender is not among the players of the
\* game it names leaves the gameState of that game as it was and relays no
\* move_made.
C31_OnlyPlayersMove ==
    [][\A c \in Conns, g \in GameIds, move \in Moves, gameState \in States :
          (/\ g \in DOMAIN games
           /\ c \notin IdsOf(games[g].players)
           /\ MakeMove(c, g, move, gameState))
          => /\ games'[g].gameState = games[g].gameState
             /\ Events(sent', "move_made") = <<>>]_vars

\* C31 (amended): the handler of make_move does not look at its sender: a
\* make_move naming a game of the registry, sent by a spectator of the game
\* or by a socket the game does not list, stores its gameState in the game
\* and is relayed to the connected sockets of the game as a player's move is.
C31_AnySenderMoves ==
    [][\A c \in Conns, g \in GameIds, move \in Moves, gameState \in States :
          (/\ g \in DOMAIN games
           /\ c \notin IdsOf(games[g].players)
           /\ MakeMove(c, g, move, gameState))
          => /\ games'[g] = [games[g] EXCEPT !.gameState = gameState]
             /\ Recipients(Events(sent', "move_made"))
                  = (rooms[g] \cap connected) \ {c}
             /\ ((Listed(games[g]) \cap connected) \ {c})
                  \subseteq Recipients(Events(sent', "move_made"))]_vars

\* A move sent by a spectator has just been stored and relayed to both
\* players.
C31_SpectatorMoved ==
    /\ last.op = "make_move"
    /\ "from" \in DOMAIN last
    /\ \E g \in DOMAIN games :
          /\ last.from \in IdsOf(games[g].spectators) \ IdsOf(games[g].players)
          /\ games[g].gameState \in States
          /\ Cardinality(IdsOf(games[g].players)) = 2
          /\ Recipients(Events(sent, "move_made")) = IdsOf(games[g].players)
          /\ \A i \in 1..Len(sent) : sent[i].gameState = games[g].gameState

\* C32 (as claimed): a socket whose disconnect has been handled is not among
\* the spectators of any game of the registry.
C32_GoneSocketsNotSpectators ==
    \A c \in Conns \ connected :
        \A g \in DOMAIN games : c \notin IdsOf(games[g].spectators)

\* C33: the gameState of a game that stays in the registry is changed by
\* nothing but a make_move naming its key: a step that is not such a
\* make_move (a join_game, send_message, game_over, disconnect, timer firing
\* or sweep, or a make_move naming another key) leaves it as it was.  (A
\* create_game that assigns the key again stores another game.)
C33_OnlyMoveChangesState ==
    [][\A g \in DOMAIN games \cap DOMAIN games' :
          games'[g].gameState # games[g].gameState
          => \/ \E c \in Conns, move \in Moves, gameState \in States :
                   MakeMove(c, g, move, gameState)
             \/ \E c \in Conns : CreateGameAs(c, g, NameOf[c])]_vars

\* A game_over has just been handled for a game in which a move had been
\* made, and the game still holds the gameState of the move.
C33_StateKeptThroughGameOver ==
    /\ last.op = "game_over"
    /\ sent # <<>>
    /\ \E g \in DOMAIN games :
          /\ games[g].gameState \in States
          /\ Recipients(sent) = Listed(games[g]) \cap connected

\* C34: handling the disconnect of a socket takes no game out of the
\* registry and leaves every game other than the one userGameMap names for
\* the socket as it was, and leaves the userGameMap entry of every other
\* socket as it was.
C34_DisconnectTouchesOneGame ==
    [][\A c \in Conns :
          Disconnect(c)
          => /\ DOMAIN games' = DOMAIN games
             /\ \A g \in DOMAIN games :
                   (c \notin DOMAIN userGameMap \/ userGameMap[c] # g)
                   => games'[g] = games[g]
             /\ \A d \in Conns \ {c} :
                   /\ d \in DOMAIN userGameMap' <=> d \in DOMAIN userGameMap
                   /\ d \in DOMAIN userGameMap => userGameMap'[d] = userGameMap[d]]_vars

\* A player of one game has just disconnected while the registry held
\* another game, and another socket still has its userGameMap entry.
C34_PlayerLeftOneOfTwoGames ==
    /\ last.op = "disconnect"
    /\ Cardinality(DOMAIN games) = 2
    /\ \E c \in Conns \ connected :
          /\ c \notin DOMAIN userGameMap
          /\ \E d \in connected : d \in DOMAIN userGameMap
          /\ \E g \in DOMAIN games : c \in IdsOf(games[g].players)

\* C35: a game_over naming a key that is not in the registry delivers no
\* event to anybody, neither game_ended nor error, and leaves games,
\* userGameMap, the rooms and the timers as they were.
C35_GameOverMissingIsSilent ==
    [][\A c \in Conns, g \in GameIds, r \in Texts :
          (g \notin DOMAIN games /\ GameOver(c, g, r))
          => /\ sent' = <<>>
             /\ UNCHANGED <<games, userGameMap, rooms, timers>>]_vars

\* A game_over has just been handled with no game in the registry while a
\* connected socket was still in the room of a game that is gone: nothing
\* was sent.
C35_GameOverAfterGameGone ==
    /\ last.op = "game_over"
    /\ sent = <<>>
    /\ DOMAIN games = {}
    /\ \E g \in tokens : rooms[g] \cap connected # {}

\* The message lists a client may hold before a chat message arrives.
MessageLists == {<<>>, <<[sender |-> "Bob", message |-> "yo"]>>}

\* socketIO.on('message_received') of the client: the payload of the event is
\* appended to the list of messages.
OnMessageReceived(prev, data) == Append(prev, data)

\* A sendMessage that leaves the sender's own list alone.
ClientSendMessageNoLocalAppend(prev, message, sender) == prev

\* The setMessages of the client's sendMessage, done after the emit of
\* send_message: the sender's own message is appended to its list.
ClientSendMessage(prev, message, sender) ==
    Append(prev, [sender |-> sender, message |-> message])

\* The list of a client whose socket is delivered the events in order: every
\* message_received runs the client's handler on the event's payload.
RECURSIVE Delivered(_, _)
Delivered(prev, events) ==
    IF events = <<>> THEN prev
    ELSE Delivered(IF Head(events).ev = "message_received"
                   THEN OnMessageReceived(prev,
                            [sender |-> Head(events).sender,
                             message |-> Head(events).message])
                   ELSE prev,
                   Tail(events))

\* The list of the client of socket d once the client of socket c has called
\* sendMessage and the server has handled its send_message with the events
\* given.
MessagesAfter(prev, d, c, message, sender, events) ==
    Delivered(IF d = c THEN ClientSendMessage(prev, message, sender) ELSE prev,
              SelectSeq(events, LAMBDA e : e.to = d))

\* C36: when the client of a connected socket that a game lists calls
\* sendMessage for that game, the list of messages of every connected socket
\* the game lists, the sender's included, ends up with that message appended
\* exactly once: the sender's by its own append, with no message_received
\* coming back to it, every other one's by the single message_received
\* relayed to it.
C36_ChatAppendedOncePerMember ==
    [][\A c \in Conns, g \in GameIds, t \in Texts :
          (/\ g \in DOMAIN games
           /\ c \in Listed(games[g]) \cap connected
           /\ SendMessage(c, g, t, NameOf[c]))
          => \A d \in Listed(games[g]) \cap connected, prev \in MessageLists :
                MessagesAfter(prev, d, c, t, NameOf[c], sent')
                  = Append(prev, [sender |-> NameOf[c], message |-> t])]_vars

\* A connected socket that a game lists has just had its send_message
\* relayed to the two other connected sockets the game lists, and to nobody
\* else.
C36_MemberChattedToTwoOthers ==
    /\ last.op = "send_message"
    /\ \E g \in DOMAIN games :
          \E c \in Listed(games[g]) \cap connected :
             /\ Cardinality(Listed(games[g]) \cap connected) = 3
             /\ Recipients(sent) = (Listed(games[g]) \cap connected) \ {c}
             /\ Len(sent) = 2

=============================================================================
